---- MODULE Spec2Model ----
(***************************************************************************)
(* Model of StockfishEngine (src/src/engine/stockfish.ts): a session that  *)
(* owns one Web Worker speaking UCI, negotiates the multi-threaded build   *)
(* against the single-threaded fallback with a 2500ms watchdog, and offers *)
(* initialize / getBestMove / setSkillLevel / setHashSize / dispose.       *)
(*                                                                         *)
(* JavaScript runs every callback to completion, so each handler is one    *)
(* action.  A continuation of an async function (the code after an await)  *)
(* is a microtask: while one is runnable no timer, message or error event  *)
(* is dispatched.  Worker.terminate() discards whatever the worker had     *)
(* still to deliver, so only live workers dispatch events; timers are not  *)
(* owned by the worker and survive its termination.                        *)
(***************************************************************************)
EXTENDS Integers, Sequences, FiniteSets, TLC

\* ---- bounds of the model ----
MaxLaunch == 3      \* workers ever constructed
MaxApi    == 3      \* calls of the public operations ever made
MaxText   == 7      \* atoms (tokens and blanks) in a message line

WorkerIds  == 1..MaxLaunch
PromiseIds == 1..MaxApi
Calls      == 1..MaxApi

\* ---- inputs ----
LevelInputs == {-5, -1, 0, 7, 20, 21, 99}
HashInputs  == {1, 15, 16, 64, 4096, 4097, 999999}
CoresInputs == {0, 16}           \* 0: navigator.hardwareConcurrency missing
FenInputs       == {"fenA", "fenB", "fenC"}
DepthInputs     == {0, 1, 2, 12, 20, 30}
MovetimeInputs  == {0, 1, 100, 500, 2000}
Atoms           == {"bestmove", "ponder", "e2e4", "e7e5", " "}   \* " ": white space

\* ---- program constants ----
DefaultSkillLevel == 20
DefaultCores      == 2
MaxThreads        == 8
MinSkill          == 0
MaxSkill          == 20
MinHash           == 16
MaxHash           == 4096
DefaultMovetime   == 500

VARIABLES
  worker,             \* this.worker: 0 is null, else the id of the Worker object
  isReady,            \* this.isReady
  pendingInit,        \* this.pendingInit: 0 is null, else the promise id
  currentSkillLevel,  \* this.currentSkillLevel
  isSingleThreaded,   \* this.isSingleThreaded
  cores,              \* navigator.hardwareConcurrency (0 when absent)
  nWorkers,           \* Worker objects constructed so far (ids 1..nWorkers)
  alive,              \* alive[w]: constructed and not terminated
  single,             \* single[w]: closure variable singleThreaded of w's initializeWorker call
  attempt,            \* attempt[w]: the promise whose resolve w's closures captured (0 = none)
  hsOn,               \* hsOn[w]: handleMessage/handleError are attached to w
  timer,              \* timer[w]: the setTimeout of w's initializeWorker call
  sent,               \* sent[w]: commands posted to w, in order
  nproc,              \* nproc[w]: how many of sent[w] the worker has consumed
  readyokSeen,        \* readyokSeen[w]: w has emitted readyok
  errored,            \* errored[w]: w has raised its error event
  noise,              \* noise[w]: the message handleMessage of w ignored while it is attached ("none" if none)
  srchL,              \* srchL[w]: getBestMove calls whose onMessage is attached to w
  nInit,              \* promises created so far
  promise,            \* promise[p]: "none" | "pending" | "resolved" | "rejected"
  nCalls,             \* getBestMove calls made so far
  pc,                 \* pc[c]: position of getBestMove call c
  awaiting,           \* awaiting[c]: promise the call awaits (0: a non-promise value)
  resolvedBy,         \* resolvedBy[c]: the call whose go command the resolving bestmove answered
  nApi,               \* calls of the public operations made so far
  lastLevel,          \* <<argument>> of the last setSkillLevel call (<<>> before any)
  lastHash,           \* <<argument>> of the last setHashSize call (<<>> before any)
  initRet,            \* promises returned by the last two initialize() calls since the last dispose()
  disposed,           \* dispose() returned and no initialize()/getBestMove() was called since
  \* one getBestMove() on a Ready session, with its texts spelled out
  sPhase,             \* "idle" | "waiting" (onMessage attached) | "resolved"
  sFen,               \* its fen argument
  sOpts,              \* its options argument
  sPosted,            \* the commands it posted
  sText,              \* the line that resolved it
  sResult             \* the BestMove it resolved with

vars == <<worker, isReady, pendingInit, currentSkillLevel, isSingleThreaded, cores,
          nWorkers, alive, single, attempt, hsOn, timer, sent, nproc, readyokSeen,
          errored, noise, srchL, nInit, promise, nCalls, pc, awaiting, resolvedBy,
          nApi, lastLevel, lastHash, initRet, disposed,
          sPhase, sFen, sOpts, sPosted, sText, sResult>>

sessionVars == <<worker, isReady, pendingInit, currentSkillLevel, isSingleThreaded, cores,
                 nWorkers, alive, single, attempt, hsOn, timer, sent, nproc, readyokSeen,
                 errored, noise, srchL, nInit, promise, nCalls, pc, awaiting, resolvedBy,
                 nApi, lastLevel, lastHash, initRet, disposed>>

searchVars == <<sPhase, sFen, sOpts, sPosted, sText, sResult>>

Undefined == <<"undefined">>

NoOptions == [given |-> FALSE, depth |-> <<>>, movetimeMs |-> <<>>]

Min(a, b) == IF a < b THEN a ELSE b
Max(a, b) == IF a > b THEN a ELSE b

Cmd(c, a) == [cmd |-> c, arg |-> a]

LastTwo(s) == IF Len(s) > 2 THEN Tail(s) ELSE s

Init ==
  /\ worker = 0
  /\ isReady = FALSE
  /\ pendingInit = 0
  /\ currentSkillLevel = DefaultSkillLevel
  /\ isSingleThreaded = FALSE
  /\ cores \in CoresInputs
  /\ nWorkers = 0
  /\ alive = [w \in WorkerIds |-> FALSE]
  /\ single = [w \in WorkerIds |-> FALSE]
  /\ attempt = [w \in WorkerIds |-> 0]
  /\ hsOn = [w \in WorkerIds |-> FALSE]
  /\ timer = [w \in WorkerIds |-> "none"]
  /\ sent = [w \in WorkerIds |-> <<>>]
  /\ nproc = [w \in WorkerIds |-> 0]
  /\ readyokSeen = [w \in WorkerIds |-> FALSE]
  /\ errored = [w \in WorkerIds |-> FALSE]
  /\ noise = [w \in WorkerIds |-> "none"]
  /\ srchL = [w \in WorkerIds |-> {}]
  /\ nInit = 0
  /\ promise = [p \in PromiseIds |-> "none"]
  /\ nCalls = 0
  /\ pc = [c \in Calls |-> "idle"]
  /\ awaiting = [c \in Calls |-> 0]
  /\ resolvedBy = [c \in Calls |-> 0]
  /\ nApi = 0
  /\ lastLevel = <<>>
  /\ lastHash = <<>>
  /\ initRet = <<>>
  /\ disposed = FALSE
  /\ sPhase = "idle"
  /\ sFen = ""
  /\ sOpts = NoOptions
  /\ sPosted = <<>>
  /\ sText = <<>>
  /\ sResult = [move |-> Undefined, ponder |-> Undefined]

\* ---- helpers ----

\* A continuation of getBestMove is runnable once the awaited value is
\* settled; awaiting a non-promise (null) continues on the next microtask.
Runnable(c) ==
  /\ pc[c] \in {"await77", "await80"}
  /\ (IF awaiting[c] = 0 THEN TRUE ELSE promise[awaiting[c]] = "resolved")

MicrotaskPending == \E c \in Calls : Runnable(c)

\* postMessage on this.worker (a null worker throws and posts nothing)
Post(box, wkr, cmds) ==
  IF wkr = 0 THEN box ELSE [box EXCEPT ![wkr] = box[wkr] \o cmds]

\* line 16 without the memoisation
InitMemoized_Never(pi) == FALSE

\* line 16
InitMemoized(pi) == pi # 0

\* lines 20-23 leaving the held worker running
TerminateHeld_Skip(al, wkr) == al

\* lines 20-23: terminate the held worker
TerminateHeld(al, wkr) ==
  [x \in WorkerIds |-> IF x = wkr THEN FALSE ELSE al[x]]

\* terminate() of a worker discards its channel: the commands posted to it,
\* what it had consumed and every listener attached to it
Discard(f, al2, empty) ==
  [x \in WorkerIds |-> IF alive[x] /\ ~al2[x] THEN empty ELSE f[x]]

\* lines 62-63
ThreadCount(singleThreaded) ==
  LET c == IF cores # 0 THEN cores ELSE DefaultCores
  IN  IF singleThreaded THEN 1 ELSE Max(1, Min(c, MaxThreads))

\* line 114 without the lower clamp
ClampSkill_NoLower(level) == Min(MaxSkill, level)

\* line 114 (Math.floor is the identity on the integer inputs drawn here)
ClampSkill(level) == Max(MinSkill, Min(MaxSkill, level))

\* line 121
ClampHash(mb) == Max(MinHash, Min(MaxHash, mb))

\* lines 59-66 with the skill level posted before the protocol is started
Handshake_SkillFirst(singleThreaded) ==
  << Cmd("SkillLevel", currentSkillLevel), Cmd("uci", 0), Cmd("ucinewgame", 0),
     Cmd("Threads", IF singleThreaded THEN 1 ELSE MaxThreads),
     Cmd("Ponder", 0) >>

\* lines 59-66
Handshake(singleThreaded) ==
  << Cmd("uci", 0), Cmd("ucinewgame", 0),
     Cmd("Threads", ThreadCount(singleThreaded)),
     Cmd("SkillLevel", currentSkillLevel),
     Cmd("Ponder", 0) >>

\* resolve() of promise p: settles a pending promise, otherwise nothing
Resolved(pr, p) ==
  IF p # 0 /\ pr[p] = "pending" THEN [pr EXCEPT ![p] = "resolved"] ELSE pr

\* lines 19-67: initializeWorker(scriptUrl, singleThreaded) running inside the
\* executor of promise p; timerBase is the timer table it starts from.
InitializeWorker(singleThreaded, p, timerBase) ==
  LET w   == nWorkers + 1
      al2 == TerminateHeld(alive, worker)
  IN
  /\ nWorkers < MaxLaunch
  /\ nWorkers' = w
  /\ alive' = [al2 EXCEPT ![w] = TRUE]
  /\ worker' = w
  /\ isSingleThreaded' = singleThreaded
  /\ single' = [single EXCEPT ![w] = singleThreaded]
  /\ attempt' = [attempt EXCEPT ![w] = p]
  /\ timer' = [timerBase EXCEPT ![w] = "pending"]
  /\ hsOn' = [Discard(hsOn, al2, FALSE) EXCEPT ![w] = TRUE]
  /\ sent' = [Discard(sent, al2, <<>>) EXCEPT ![w] = Handshake(singleThreaded)]
  /\ nproc' = Discard(nproc, al2, 0)
  /\ readyokSeen' = Discard(readyokSeen, al2, FALSE)
  /\ errored' = Discard(errored, al2, FALSE)
  /\ noise' = Discard(noise, al2, "none")
  /\ srchL' = Discard(srchL, al2, {})

launchVars == <<worker, isSingleThreaded, nWorkers, alive, single, attempt, timer,
                hsOn, sent, nproc, readyokSeen, errored, noise, srchL>>
chanVars   == <<nproc, readyokSeen, errored, noise>>
callVars   == <<nCalls, pc, awaiting, resolvedBy>>
setVars    == <<lastLevel, lastHash, currentSkillLevel>>

\* lines 15-74: the body of initialize(); it returns pendingInit'
InitializeBody ==
  /\ IF InitMemoized(pendingInit)
       THEN UNCHANGED <<pendingInit, nInit, promise, launchVars>>
       ELSE /\ nInit' = nInit + 1
            /\ pendingInit' = nInit + 1
            /\ promise' = [promise EXCEPT ![nInit + 1] = "pending"]
            /\ InitializeWorker(FALSE, nInit + 1, timer)
  /\ initRet' = LastTwo(Append(initRet, pendingInit'))
  /\ disposed' = FALSE

\* ---- the public operations ----

Initialize ==
  /\ nApi < MaxApi
  /\ nApi' = nApi + 1
  /\ InitializeBody
  /\ UNCHANGED <<isReady, callVars, setVars, cores>>
  /\ UNCHANGED searchVars

\* lines 82-110 for call c: attach onMessage, post position and go
PostSearch(c) ==
  IF worker = 0
    THEN /\ pc' = [pc EXCEPT ![c] = "rejected"]
         /\ UNCHANGED <<srchL, sent>>
    ELSE /\ pc' = [pc EXCEPT ![c] = "waiting"]
         /\ srchL' = [srchL EXCEPT ![worker] = @ \cup {c}]
         /\ sent' = Post(sent, worker, <<Cmd("position", c), Cmd("go", c)>>)

\* lines 76-80: the synchronous part of getBestMove, up to its first await
GetBestMove ==
  LET c == nCalls + 1 IN
  /\ nApi < MaxApi
  /\ nApi' = nApi + 1
  /\ nCalls' = c
  /\ IF worker = 0
       THEN /\ InitializeBody
            /\ pc' = [pc EXCEPT ![c] = "await77"]
            /\ awaiting' = [awaiting EXCEPT ![c] = pendingInit']
       ELSE /\ IF ~isReady
                 THEN /\ pc' = [pc EXCEPT ![c] = "await80"]
                      /\ awaiting' = [awaiting EXCEPT ![c] = pendingInit]
                      /\ UNCHANGED <<srchL, sent>>
                 ELSE /\ PostSearch(c)
                      /\ UNCHANGED awaiting
            /\ initRet' = initRet
            /\ disposed' = FALSE
            /\ UNCHANGED <<pendingInit, nInit, promise, worker, isSingleThreaded,
                           nWorkers, alive, single, attempt, timer, hsOn, chanVars>>
  /\ UNCHANGED <<isReady, resolvedBy, setVars, cores>>
  /\ UNCHANGED searchVars

\* lines 77-80: the continuation after `await this.initialize()`
Resume77(c) ==
  /\ pc[c] = "await77"
  /\ Runnable(c)
  /\ IF worker = 0
       THEN /\ pc' = [pc EXCEPT ![c] = "rejected"]
            /\ awaiting' = [awaiting EXCEPT ![c] = 0]
            /\ UNCHANGED <<srchL, sent>>
       ELSE IF ~isReady
         THEN /\ pc' = [pc EXCEPT ![c] = "await80"]
              /\ awaiting' = [awaiting EXCEPT ![c] = pendingInit]
              /\ UNCHANGED <<srchL, sent>>
         ELSE /\ PostSearch(c)
              /\ awaiting' = [awaiting EXCEPT ![c] = 0]
  /\ UNCHANGED <<worker, isReady, pendingInit, isSingleThreaded, nWorkers, alive,
                 single, attempt, hsOn, timer, nInit, promise, nCalls, resolvedBy,
                 setVars, cores, chanVars, initRet, disposed, nApi>>
  /\ UNCHANGED searchVars

\* lines 80-110: the continuation after `await this.pendingInit`
Resume80(c) ==
  /\ pc[c] = "await80"
  /\ Runnable(c)
  /\ PostSearch(c)
  /\ awaiting' = [awaiting EXCEPT ![c] = 0]
  /\ UNCHANGED <<worker, isReady, pendingInit, isSingleThreaded, nWorkers, alive,
                 single, attempt, hsOn, timer, nInit, promise, nCalls,
                 resolvedBy, setVars, cores, chanVars, initRet, disposed, nApi>>
  /\ UNCHANGED searchVars

\* lines 113-118
SetSkillLevel(level) ==
  /\ nApi < MaxApi
  /\ nApi' = nApi + 1
  /\ lastLevel' = <<level>>
  /\ currentSkillLevel' = ClampSkill(level)
  /\ sent' = IF worker # 0 /\ isReady
               THEN Post(sent, worker, <<Cmd("SkillLevel", currentSkillLevel')>>)
               ELSE sent
  /\ UNCHANGED <<worker, isReady, pendingInit, isSingleThreaded, nWorkers, alive,
                 single, attempt, hsOn, timer, nInit, promise, callVars, lastHash,
                 cores, chanVars, srchL, initRet, disposed>>
  /\ UNCHANGED searchVars

\* lines 120-125
SetHashSize(mb) ==
  /\ nApi < MaxApi
  /\ nApi' = nApi + 1
  /\ lastHash' = <<mb>>
  /\ sent' = IF worker # 0 /\ isReady
               THEN Post(sent, worker, <<Cmd("Hash", ClampHash(mb))>>)
               ELSE sent
  /\ UNCHANGED <<worker, isReady, pendingInit, isSingleThreaded, nWorkers, alive,
                 single, attempt, hsOn, timer, nInit, promise, callVars, lastLevel,
                 currentSkillLevel, cores, chanVars, srchL, initRet, disposed>>
  /\ UNCHANGED searchVars

\* lines 132-139
Dispose ==
  /\ nApi < MaxApi
  /\ nApi' = nApi + 1
  /\ IF worker # 0
       THEN LET al2 == TerminateHeld(alive, worker) IN
            /\ alive' = al2
            /\ hsOn' = Discard(hsOn, al2, FALSE)
            /\ sent' = Discard(sent, al2, <<>>)
            /\ nproc' = Discard(nproc, al2, 0)
            /\ readyokSeen' = Discard(readyokSeen, al2, FALSE)
            /\ errored' = Discard(errored, al2, FALSE)
            /\ noise' = Discard(noise, al2, "none")
            /\ srchL' = Discard(srchL, al2, {})
            /\ worker' = 0
            /\ isReady' = FALSE
            /\ pendingInit' = 0
       ELSE UNCHANGED <<alive, hsOn, sent, chanVars, srchL, worker, isReady, pendingInit>>
  /\ initRet' = <<>>
  /\ disposed' = TRUE
  /\ UNCHANGED <<isSingleThreaded, nWorkers, single, attempt, timer,
                 nInit, promise, callVars, setVars, cores>>
  /\ UNCHANGED searchVars

\* ---- events ----

\* lines 27-32: the 2500ms timer of worker w's initializeWorker call fires.
\* All timers have the same delay, so they fire in the order they were set.
TimerFire(w) ==
  /\ timer[w] = "pending"
  /\ \A x \in WorkerIds : x < w => timer[x] # "pending"
  /\ ~MicrotaskPending
  /\ IF ~isReady /\ ~single[w]
       THEN InitializeWorker(TRUE, attempt[w], [timer EXCEPT ![w] = "fired"])
       ELSE /\ timer' = [timer EXCEPT ![w] = "fired"]
            /\ UNCHANGED <<worker, isSingleThreaded, nWorkers, alive, single,
                           attempt, hsOn, sent, chanVars, srchL>>
  /\ UNCHANGED <<isReady, pendingInit, nInit, promise, callVars, setVars, cores,
                 initRet, disposed, nApi>>
  /\ UNCHANGED searchVars

\* lines 34-38: worker w raises its error event while handleError listens
\* (an error event nobody listens to changes nothing in the session)
WorkerError(w) ==
  /\ alive[w]
  /\ hsOn[w]
  /\ ~errored[w]
  /\ ~MicrotaskPending
  /\ IF ~single[w]
       THEN InitializeWorker(TRUE, attempt[w], timer)
       ELSE /\ errored' = [errored EXCEPT ![w] = TRUE]
            /\ UNCHANGED <<worker, isSingleThreaded, nWorkers, alive, single, attempt,
                           timer, hsOn, sent, nproc, readyokSeen, noise, srchL>>
  /\ UNCHANGED <<isReady, pendingInit, nInit, promise, callVars, setVars, cores,
                 initRet, disposed, nApi>>
  /\ UNCHANGED searchVars

\* The worker is a UCI engine: it consumes the posted commands in order and
\* answers uci with uciok, isready with readyok and go with bestmove.
Answered == {"uci", "isready", "go"}

NextAnswered(w) ==
  LET I == {i \in (nproc[w] + 1)..Len(sent[w]) : sent[w][i].cmd \in Answered}
  IN  IF I = {} THEN 0 ELSE CHOOSE i \in I : \A j \in I : i <= j

\* lines 44-45: handleMessage of worker w on a line containing uciok
OnUciok(w) ==
  /\ sent' = IF hsOn[w] THEN Post(sent, worker, <<Cmd("isready", 0)>>) ELSE sent
  /\ UNCHANGED <<worker, isReady, pendingInit, isSingleThreaded, nWorkers, alive,
                 single, attempt, hsOn, timer, nInit, promise, callVars, srchL,
                 readyokSeen>>

\* lines 46-52: handleMessage of worker w on a line containing readyok
OnReadyok(w) ==
  /\ readyokSeen' = [readyokSeen EXCEPT ![w] = TRUE]
  /\ IF hsOn[w]
       THEN /\ timer' = [timer EXCEPT ![w] = IF @ = "pending" THEN "cleared" ELSE @]
            /\ isReady' = TRUE
            /\ IF worker # 0
                 THEN /\ hsOn' = [hsOn EXCEPT ![worker] = FALSE]
                      /\ promise' = Resolved(promise, attempt[w])
                 ELSE UNCHANGED <<hsOn, promise>>
       ELSE UNCHANGED <<timer, isReady, hsOn, promise>>
  /\ UNCHANGED <<worker, pendingInit, isSingleThreaded, nWorkers, alive, single,
                 attempt, sent, nInit, callVars, srchL>>

\* lines 83-97: every onMessage attached to worker w on a bestmove line that
\* answers the go command of call g
OnBestmove(w, g) ==
  /\ pc' = [c \in Calls |-> IF c \in srchL[w] THEN "resolved" ELSE pc[c]]
  /\ resolvedBy' = [c \in Calls |-> IF c \in srchL[w] THEN g ELSE resolvedBy[c]]
  /\ srchL' = IF worker # 0 /\ srchL[w] # {}
                THEN [srchL EXCEPT ![worker] = @ \ srchL[w]]
                ELSE srchL
  /\ UNCHANGED <<worker, isReady, pendingInit, isSingleThreaded, nWorkers, alive,
                 single, attempt, hsOn, timer, sent, nInit, promise, nCalls,
                 awaiting, readyokSeen>>

\* The lines a UCI engine emits: the answers to uci, isready and go, and
\* unsolicited output (id/option/info lines, or data that is not a string).
Line(u, r, b) == [str |-> TRUE, uciok |-> u, readyok |-> r, bestmove |-> b]
InfoLine      == Line(FALSE, FALSE, FALSE)
NonText       == [str |-> FALSE, uciok |-> FALSE, readyok |-> FALSE, bestmove |-> FALSE]

Answer(cmd) ==
  CASE cmd = "uci"     -> Line(TRUE, FALSE, FALSE)
    [] cmd = "isready" -> Line(FALSE, TRUE, FALSE)
    [] cmd = "go"      -> Line(FALSE, FALSE, TRUE)

\* lines 41-46 taking every line that is not uciok for readyok
HandleMessageKind_Loose(m) ==
  IF ~m.str THEN "ignore"
  ELSE IF m.uciok THEN "uciok"
  ELSE "readyok"

\* lines 41-46: what handleMessage makes of a message
HandleMessageKind(m) ==
  IF ~m.str THEN "ignore"
  ELSE IF m.uciok THEN "uciok"
  ELSE IF m.readyok THEN "readyok"
  ELSE "ignore"

\* lines 84-87: what onMessage makes of a message
OnMessageKind(m) ==
  IF m.str /\ m.bestmove THEN "bestmove" ELSE "ignore"

\* lines 42, 52, 85, 96: no listener of worker w reacts to the message
OnIgnored(w) ==
  UNCHANGED <<worker, isReady, pendingInit, isSingleThreaded, nWorkers, alive,
              single, attempt, hsOn, timer, sent, nInit, promise, callVars, srchL,
              readyokSeen>>

\* the message event m of worker w reaches the listeners attached to w; g is
\* the call whose go command m answers when m is a bestmove line
Dispatch(w, m, g) ==
  CASE HandleMessageKind(m) = "uciok"   -> OnUciok(w)
    [] HandleMessageKind(m) = "readyok" -> OnReadyok(w)
    [] OTHER -> IF OnMessageKind(m) = "bestmove" /\ srchL[w] # {}
                  THEN OnBestmove(w, g)
                  ELSE OnIgnored(w)

\* worker w answers its next command and the message event is dispatched
WorkerMessage(w) ==
  /\ alive[w]
  /\ ~MicrotaskPending
  /\ NextAnswered(w) # 0
  /\ LET i == NextAnswered(w)
         m == sent[w][i]
     IN  /\ nproc' = [nproc EXCEPT ![w] = i]
         /\ Dispatch(w, Answer(m.cmd), m.arg)
  /\ noise' = [x \in WorkerIds |-> IF hsOn'[x] THEN noise[x] ELSE "none"]
  /\ UNCHANGED <<setVars, cores, errored, initRet, disposed, nApi>>
  /\ UNCHANGED searchVars

\* worker w emits a line that is no answer, or data that is not a string,
\* while handleMessage listens to it
WorkerNoise(w) ==
  /\ alive[w]
  /\ hsOn[w]
  /\ noise[w] = "none"
  /\ ~MicrotaskPending
  /\ \E k \in {"info", "nontext"} :
       /\ noise' = [noise EXCEPT ![w] = k]
       /\ Dispatch(w, IF k = "info" THEN InfoLine ELSE NonText, 0)
  /\ UNCHANGED <<setVars, cores, nproc, errored, initRet, disposed, nApi>>
  /\ UNCHANGED searchVars

Next ==
  \/ Initialize
  \/ GetBestMove
  \/ \E c \in Calls : Resume77(c)
  \/ \E c \in Calls : Resume80(c)
  \/ \E l \in LevelInputs : SetSkillLevel(l)
  \/ \E mb \in HashInputs : SetHashSize(mb)
  \/ Dispose
  \/ \E w \in WorkerIds : TimerFire(w)
  \/ \E w \in WorkerIds : WorkerError(w)
  \/ \E w \in WorkerIds : WorkerMessage(w)
  \/ \E w \in WorkerIds : WorkerNoise(w)

Spec == Init /\ [][Next]_vars

TypeOK ==
  /\ worker \in 0..MaxLaunch
  /\ isReady \in BOOLEAN
  /\ pendingInit \in 0..MaxApi
  /\ currentSkillLevel \in Int
  /\ nWorkers \in 0..MaxLaunch
  /\ \A w \in WorkerIds : timer[w] \in {"none", "pending", "fired", "cleared"}
  /\ \A p \in PromiseIds : promise[p] \in {"none", "pending", "resolved", "rejected"}
  /\ \A c \in Calls : pc[c] \in {"idle", "await77", "await80", "waiting", "resolved", "rejected"}

\* ---- one search, with its texts spelled out ----

OptionsInputs ==
  {NoOptions} \cup
  {[given |-> TRUE, depth |-> d, movetimeMs |-> m] :
     d \in {<<>>} \cup {<<n>> : n \in DepthInputs},
     m \in {<<>>} \cup {<<n>> : n \in MovetimeInputs}}

\* src/src/App.tsx line 31: the options the application passes
AppOptions == [given |-> TRUE, depth |-> <<>>, movetimeMs |-> <<DefaultMovetime>>]

Texts == UNION {[1..n -> Atoms] : n \in 0..MaxText}

\* line 103: options?.depth is truthy
DepthGiven(o) == o.given /\ o.depth # <<>> /\ o.depth[1] # 0

\* line 106: options?.movetimeMs ?? 500
Movetime(o) == IF o.given /\ o.movetimeMs # <<>> THEN o.movetimeMs[1] ELSE DefaultMovetime

\* lines 102-109: the commands getBestMove(fen, o) posts
SearchCommands(fen, o) ==
  << Cmd("position fen", fen),
     IF DepthGiven(o) THEN Cmd("go depth", o.depth[1])
                      ELSE Cmd("go movetime", Movetime(o)) >>

\* line 87
StartsWithBestmove(t) == t # <<>> /\ t[1] = "bestmove"

RECURSIVE TrimLeft(_)
TrimLeft(t) == IF t # <<>> /\ Head(t) = " " THEN TrimLeft(Tail(t)) ELSE t

RECURSIVE TrimRight(_)
TrimRight(t) ==
  IF t # <<>> /\ t[Len(t)] = " " THEN TrimRight(SubSeq(t, 1, Len(t) - 1)) ELSE t

\* line 88: text.trim()
Trim(t) == TrimRight(TrimLeft(t))

\* line 88: split(/\s+/), scanning t with the token cur being read and the
\* tokens acc already cut; a run of white space is one separator
RECURSIVE SplitFrom(_, _, _)
SplitFrom(t, cur, acc) ==
  IF t = <<>> THEN Append(acc, cur)
  ELSE IF Head(t) = " " THEN SplitFrom(TrimLeft(t), <<>>, Append(acc, cur))
  ELSE SplitFrom(Tail(t), Append(cur, Head(t)), acc)

Split(t) == SplitFrom(t, <<>>, <<>>)

\* parts[i] with the index i counted from 0
At(parts, i) == IF i + 1 \in 1..Len(parts) THEN parts[i + 1] ELSE Undefined

\* line 91: a value is truthy unless undefined or the empty string
Truthy(x) == x # Undefined /\ x # <<>>

\* line 90 with lastIndexOf for indexOf
IndexOf_Last(parts, tok) ==
  LET I == {i \in 1..Len(parts) : parts[i] = tok}
  IN  IF I = {} THEN -1 ELSE (CHOOSE i \in I : \A j \in I : j <= i) - 1

\* line 90: parts.indexOf(tok), counted from 0, -1 when absent
IndexOf(parts, tok) ==
  LET I == {i \in 1..Len(parts) : parts[i] = tok}
  IN  IF I = {} THEN -1 ELSE (CHOOSE i \in I : \A j \in I : i <= j) - 1

\* lines 88-93: the BestMove built from a line that starts with bestmove
ParseBestmove(t) ==
  LET parts     == Split(Trim(t))
      ponderIdx == IndexOf(parts, <<"ponder">>)
  IN  [move   |-> At(parts, 1),
       ponder |-> IF ponderIdx # -1 /\ Truthy(At(parts, ponderIdx + 1))
                    THEN At(parts, ponderIdx + 1)
                    ELSE Undefined]

\* lines 82-109 on a Ready session: attach onMessage, post position and go
PostCommands(fen, o) ==
  /\ sPhase = "idle"
  /\ sPhase' = "waiting"
  /\ sFen' = fen
  /\ sOpts' = o
  /\ sPosted' = SearchCommands(fen, o)
  /\ UNCHANGED <<sText, sResult, sessionVars>>

\* src/src/App.tsx line 31
PostApp == \E fen \in FenInputs : PostCommands(fen, AppOptions)

\* lines 83-97: onMessage receives the text t (<<>> for the empty string
\* and for data that is not a string)
OnMessage(t) ==
  /\ sPhase = "waiting"
  /\ IF t # <<>> /\ StartsWithBestmove(t)
       THEN /\ sResult' = ParseBestmove(t)
            /\ sText' = t
            /\ sPhase' = "resolved"
       ELSE UNCHANGED <<sText, sResult, sPhase>>
  /\ UNCHANGED <<sFen, sOpts, sPosted, sessionVars>>

GoNext == \E fen \in FenInputs, o \in OptionsInputs : PostCommands(fen, o)

GoSpec == Init /\ [][GoNext]_vars

\* the worker emits a line while onMessage is attached (lines 94, 99)
WorkerLine ==
  /\ sPhase = "waiting"
  /\ \E t \in Texts : OnMessage(t)

ParseNext ==
  \/ PostApp
  \/ WorkerLine

ParseSpec == Init /\ [][ParseNext]_vars


\* ---- properties ----

PrimaryLaunches(p)  == {w \in 1..nWorkers : attempt[w] = p /\ ~single[w]}
FallbackLaunches(p) == {w \in 1..nWorkers : attempt[w] = p /\ single[w]}
TimerPending        == \E w \in WorkerIds : timer[w] = "pending"
Unsettled(c)        == pc[c] \in {"await77", "await80", "waiting"}

\* C1: initialize() calls with no dispose() between them all return the same
\* promise, the one the session stores, and the attempt behind a promise
\* launches the primary variant exactly once.
C1_IdempotentInit ==
  /\ \A i \in 1..Len(initRet) : initRet[i] # 0 /\ initRet[i] = pendingInit
  /\ \A p \in PromiseIds : promise[p] # "none" => Cardinality(PrimaryLaunches(p)) = 1

\* two initialize() calls without a dispose(), the second while the first
\* attempt is still in flight
C1_Witness ==
  /\ Len(initRet) = 2
  /\ initRet[1] = initRet[2]
  /\ promise[initRet[2]] = "pending"

\* C2: once the timer of the primary worker of the current attempt has fired
\* without that worker having emitted readyok, the session runs the
\* single-threaded variant, usingSingleThreaded is true, and as soon as the
\* running worker has answered isready with readyok the promise returned by
\* initialize() is resolved.
C2_Fallback ==
  \A w \in WorkerIds :
    (attempt[w] # 0 /\ attempt[w] = pendingInit /\ ~single[w] /\ timer[w] = "fired")
      => /\ worker # 0
         /\ single[worker]
         /\ isSingleThreaded
         /\ (readyokSeen[worker] => promise[pendingInit] = "resolved")

\* C3: within one initialization attempt the fallback variant is launched at
\* most once.
C3_OneFallback ==
  \A p \in PromiseIds : Cardinality(FallbackLaunches(p)) <= 1

\* C4: initialize() never hangs: once the watchdog of the fallback worker has
\* expired without readiness the promise of the attempt is settled (rejected
\* with EngineUnavailable), not pending.
C4_NeverHangs ==
  \A w \in WorkerIds :
    (single[w] /\ attempt[w] # 0 /\ timer[w] = "fired")
      => promise[attempt[w]] # "pending"

\* C5: at most one worker is alive, and it is the one the session holds.
C5_OneWorker ==
  /\ Cardinality({w \in WorkerIds : alive[w]}) <= 1
  /\ \A w \in WorkerIds : alive[w] => w = worker

\* a second worker has been launched and the one held before is terminated
C5_Witness ==
  /\ nWorkers >= 2
  /\ worker = nWorkers
  /\ alive[worker]
  /\ \A w \in 1..(nWorkers - 1) : ~alive[w]

\* C6: at most one search is in flight, and a getBestMove() call is resolved
\* only by the bestmove that answers its own go command.
C6_OneSearch ==
  /\ Cardinality({c \in Calls : pc[c] = "waiting"}) <= 1
  /\ \A c \in Calls : pc[c] = "resolved" => resolvedBy[c] = c

\* C7: the position/go commands of a getBestMove() are posted only to a
\* worker that has emitted readyok.
C7_Sequencing ==
  [][\A c \in Calls :
       (pc[c] # "waiting" /\ pc'[c] = "waiting") => readyokSeen'[worker']]_vars

\* C8: after a dispose(), once nothing of the torn-down session can run any
\* more (no worker, no timer, no continuation), no promise returned by
\* initialize() or getBestMove() is still pending.
C8_TeardownSafety ==
  (disposed /\ worker = 0 /\ ~TimerPending /\ ~MicrotaskPending)
    => /\ \A c \in Calls : ~Unsettled(c)
       /\ \A p \in PromiseIds : promise[p] # "pending"

\* C9: from the return of dispose() until the next initialize() or
\* getBestMove() call the session is Uninitialized: no worker, not ready, no
\* initialization pending.
C9_DisposeStable ==
  disposed => (worker = 0 /\ ~isReady /\ pendingInit = 0)

\* C10: the stored Skill Level is min(20, max(0, level)) of the last
\* setSkillLevel(level); every Skill Level posted, by the setter or by a
\* handshake, is that value, and every Hash posted by setHashSize(mb) is
\* min(4096, max(16, mb)); so no posted value leaves [0,20] resp. [16,4096].
C10_SpecSkill == IF lastLevel = <<>> THEN 20 ELSE Min(20, Max(0, lastLevel[1]))

C10_SpecHash  == IF lastHash = <<>> THEN 16 ELSE Min(4096, Max(16, lastHash[1]))

C10_Clamping ==
  /\ [](/\ currentSkillLevel = C10_SpecSkill
        /\ \A w \in WorkerIds : \A i \in 1..Len(sent[w]) :
             /\ sent[w][i].cmd = "SkillLevel" => sent[w][i].arg \in 0..20
             /\ sent[w][i].cmd = "Hash" => sent[w][i].arg \in 16..4096)
  /\ [][\A w \in WorkerIds :
          Len(sent'[w]) > Len(sent[w]) =>
            \A i \in (Len(sent[w]) + 1)..Len(sent'[w]) :
              /\ sent'[w][i].cmd = "SkillLevel" => sent'[w][i].arg = C10_SpecSkill'
              /\ sent'[w][i].cmd = "Hash" => sent'[w][i].arg = C10_SpecHash']_vars

\* setSkillLevel(-5) was called before a launch, whose handshake carries 0
C10_Witness ==
  /\ lastLevel = <<-5>>
  /\ worker # 0
  /\ Len(sent[worker]) >= 4
  /\ sent[worker][4] = Cmd("SkillLevel", 0)

\* C14: while a worker is held, usingSingleThreaded tells whether it is the
\* single-threaded variant, and the Threads option of its handshake is 1 for
\* that variant and the core count clamped to [1,8] otherwise; while no
\* worker is held (before initialize(), after dispose()) it is false.
C14_Cores == IF cores = 0 THEN 2 ELSE cores

C14_Variant ==
  /\ worker # 0 =>
       /\ isSingleThreaded = single[worker]
       /\ Len(sent[worker]) >= 3
       /\ sent[worker][3] =
            Cmd("Threads", IF single[worker] THEN 1 ELSE Min(8, Max(1, C14_Cores)))
  /\ worker = 0 => ~isSingleThreaded

\* C15: every launch posts uci, ucinewgame, Threads, Skill Level (the stored
\* level) and Ponder, in this order and before anything else, and isready
\* is posted to a worker only after that worker emitted uciok.
C15_Names == <<"uci", "ucinewgame", "Threads", "SkillLevel", "Ponder">>

C15_HandshakeOrder ==
  /\ [](worker # 0 =>
          /\ Len(sent[worker]) >= 5
          /\ \A i \in 1..5 : sent[worker][i].cmd = C15_Names[i]
          /\ \A i \in 1..Len(sent[worker]) :
               sent[worker][i].cmd = "isready" => (i > 5 /\ nproc[worker] >= 1))
  /\ [][nWorkers' # nWorkers =>
          /\ Len(sent'[worker']) = 5
          /\ sent'[worker'][4].arg = currentSkillLevel]_vars

\* the fallback worker, launched after the primary, has been sent the same
\* handshake and, after its uciok, the isready probe
C15_Witness ==
  /\ worker # 0
  /\ single[worker]
  /\ Len(sent[worker]) = 6
  /\ sent[worker][6].cmd = "isready"

\* C17: whenever the session is Ready, the last Skill Level posted to the
\* held worker is the stored skill level.
C17_LastSkill(w) ==
  LET I == {i \in 1..Len(sent[w]) : sent[w][i].cmd = "SkillLevel"}
  IN  sent[w][CHOOSE i \in I : \A j \in I : j <= i].arg

C17_SkillSync ==
  (isReady /\ worker # 0) => C17_LastSkill(worker) = currentSkillLevel

\* C18: whenever readiness is Ready a worker is held and that worker has
\* emitted readyok since its launch.
C18_Truthful ==
  isReady => (worker # 0 /\ readyokSeen[worker])

\* C19: if readiness is Ready and an initialization promise is stored, that
\* promise is resolved.
C19_PromiseMatches ==
  (isReady /\ pendingInit # 0) => promise[pendingInit] = "resolved"

\* C16: while handleMessage listens to worker w, a uciok line posts exactly
\* one isready and changes nothing else; a readyok line sets readiness,
\* cancels the timer of w, detaches the handshake listeners and resolves the
\* promise of the attempt; any other message (a line that is neither, data
\* that is not a string, a bestmove line) leaves readiness, the worker, the
\* threading mode and the promises unchanged and posts nothing.
C16_Answers(w, cmd) ==
  /\ nproc'[w] > nproc[w]
  /\ sent[w][nproc'[w]].cmd = cmd

C16_SessionSame ==
  /\ isReady' = isReady
  /\ worker' = worker
  /\ isSingleThreaded' = isSingleThreaded
  /\ pendingInit' = pendingInit
  /\ promise' = promise
  /\ timer' = timer
  /\ hsOn' = hsOn

C16_Demux ==
  [][\A w \in WorkerIds : hsOn[w] =>
       /\ C16_Answers(w, "uci") =>
            /\ sent' = [sent EXCEPT ![w] = Append(@, Cmd("isready", 0))]
            /\ C16_SessionSame
       /\ C16_Answers(w, "isready") =>
            /\ isReady'
            /\ timer'[w] = (IF timer[w] = "pending" THEN "cleared" ELSE timer[w])
            /\ ~hsOn'[w]
            /\ promise'[attempt[w]] = "resolved"
            /\ sent' = sent
            /\ worker' = worker
            /\ isSingleThreaded' = isSingleThreaded
       /\ (C16_Answers(w, "go") \/ (noise'[w] # noise[w] /\ noise'[w] # "none")) =>
            /\ sent' = sent
            /\ C16_SessionSame]_vars

\* handleMessage of the held worker has ignored a message that is not a
\* string and the session is still initializing
C16_Witness ==
  /\ worker # 0
  /\ hsOn[worker]
  /\ noise[worker] = "nontext"
  /\ ~isReady
  /\ promise[attempt[worker]] = "pending"

\* C11: getBestMove() posts exactly 'position fen <fen>' and then one go
\* command: 'go depth <depth>' whenever depth is present (0 included),
\* whatever movetimeMs is, otherwise 'go movetime <movetimeMs>' with 500
\* when movetimeMs is absent.
C11_GoCommand ==
  sPhase = "waiting" =>
    /\ Len(sPosted) = 2
    /\ sPosted[1] = Cmd("position fen", sFen)
    /\ sPosted[2] =
         IF sOpts.depth # <<>> THEN Cmd("go depth", sOpts.depth[1])
         ELSE Cmd("go movetime",
                  IF sOpts.movetimeMs # <<>> THEN sOpts.movetimeMs[1] ELSE 500)

\* C12: the move of the result is the second white-space separated token of
\* the line; the ponder is the token after the first token 'ponder' when
\* there is one and a token follows it, and is absent otherwise.
C12_Starts(t) == {i \in 1..Len(t) : t[i] # " " /\ (i = 1 \/ t[i - 1] = " ")}

C12_Count(t) == Cardinality(C12_Starts(t))

C12_Token(t, k) ==
  LET b == CHOOSE i \in C12_Starts(t) :
             Cardinality({j \in C12_Starts(t) : j <= i}) = k
      e == CHOOSE j \in b..Len(t) :
             /\ \A x \in b..j : t[x] # " "
             /\ (j = Len(t) \/ t[j + 1] = " ")
  IN  [x \in 1..(e - b + 1) |-> t[b + x - 1]]

C12_Ponders(t) == {k \in 1..C12_Count(t) : C12_Token(t, k) = <<"ponder">>}

C12_MoveParsing ==
  sPhase = "resolved" =>
    /\ sResult.move =
         (IF C12_Count(sText) >= 2 THEN C12_Token(sText, 2) ELSE Undefined)
    /\ sResult.ponder =
         (IF C12_Ponders(sText) = {} THEN Undefined
          ELSE LET k == CHOOSE a \in C12_Ponders(sText) :
                          \A b \in C12_Ponders(sText) : a <= b
               IN  IF k < C12_Count(sText) THEN C12_Token(sText, k + 1)
                   ELSE Undefined)

\* "bestmove e2e4 ponder e7e5" resolved the call with e2e4 and e7e5
C12_Witness ==
  /\ sPhase = "resolved"
  /\ sText = <<"bestmove", " ", "e2e4", " ", "ponder", " ", "e7e5">>
  /\ sResult = [move |-> <<"e2e4">>, ponder |-> <<"e7e5">>]

\* C13: a bestmove line without a move token never resolves the call with a
\* result whose move is missing.
C13_Malformed ==
  sPhase = "resolved" => sResult.move # Undefined

====
